---- MODULE Spec2Model ----
(***************************************************************************)
(* Model of c_example_lstypec (src/c_examples/lstypec.c), the C example    *)
(* that sweeps every connector through the libtypec-rs C API.              *)
(*                                                                         *)
(* The function is sequential.  pc names the source line about to be       *)
(* executed: "Lnn" is the library call that starts on line nn, "Cnn" is    *)
(* the branch on ret that follows on line nn.  The libtypec_rs functions   *)
(* are not part of the example; their outcomes are drawn from the outcome  *)
(* sets the interface contract allows.  The example never reads the        *)
(* records connector and cable_props nor backend_type after passing them   *)
(* to the library, so the model keeps the calls and not these values.      *)
(***************************************************************************)
EXTENDS Integers, Sequences, FiniteSets, TLC

(* ---------------------------------------------------------------- bounds *)
MaxConnectors == 2      \* largest num_connectors the capability query reports
MaxModes == 1           \* largest element count of an alternate-mode result

(* ------------------------------------------------------------- constants *)
MaxPdos == 7            \* a PDO set has between 0 and 7 entries
ENOTSUP == 95           \* errno.h
EIO == 5                \* errno.h
EPROTO == 71            \* errno.h
NULL == 0
Uninit == -1            \* the indeterminate value of an unset local variable
PdoBytes == 4           \* allocated bytes per element of a PDO result
ModeBytes == 8          \* allocated bytes per element of an alternate-mode result

PdVersions == {512, 768}               \* 0x0200, 0x0300
FatalStatuses == {-EIO, -EPROTO}       \* TransportError, ProtocolError
ErrorStatuses == {-ENOTSUP} \cup FatalStatuses
TheHandle == 1                         \* the session handle libtypec_rs_new yields

VARIABLES
  pc,            \* source position
  ret,           \* line 18
  typec,         \* line 25
  capabilities,  \* line 33, [num_connectors, pd_version]
  connector_nr,  \* line 22
  out_pdos, out_npdos, out_mem_sz,      \* lines 19-21
  alt_modes, nmodes, modes_mem_sz,      \* lines 88-90
  pd_msg,        \* line 112
  retval,        \* the value c_example_lstypec returned
  session,       \* library: "none", "live" or "destroyed"
  live,          \* library: result buffers not yet destroyed, [id, kind, n, sz]
  ub,            \* library: contract violations committed by the caller
  calls,         \* every library query and session call issued, in order
  fatal          \* first status a query returned that is neither 0 nor -ENOTSUP

vars == <<pc, ret, typec, capabilities, connector_nr, out_pdos, out_npdos, out_mem_sz,
          alt_modes, nmodes, modes_mem_sz, pd_msg, retval,
          session, live, ub, calls, fatal>>

locals == <<typec, capabilities, connector_nr>>
pdoVars == <<out_pdos, out_npdos, out_mem_sz>>
modeVars == <<alt_modes, nmodes, modes_mem_sz>>
heap == <<live, ub>>
history == <<calls, fatal>>

(* A library call as recorded in calls. *)
Call(op, h, conn, partner, kind, ver) ==
  [op |-> op, h |-> h, conn |-> conn, partner |-> partner, kind |-> kind,
   pd_version |-> ver]

(* fatal after a query returned st *)
NoteFatal(st) == IF fatal = 0 /\ st \in FatalStatuses THEN st ELSE fatal

(* Reading a variable: an unset one yields any value of its range. *)
Read(v, range) == IF v = Uninit THEN range ELSE {v}

Init ==
  /\ pc = "L26"
  /\ ret = 0
  /\ typec = Uninit
  /\ capabilities = [num_connectors |-> Uninit, pd_version |-> Uninit]
  /\ connector_nr = Uninit
  /\ out_pdos = NULL /\ out_npdos = 0 /\ out_mem_sz = 0
  /\ alt_modes = Uninit /\ nmodes = Uninit /\ modes_mem_sz = Uninit
  /\ pd_msg = Uninit
  /\ retval = Uninit
  /\ session = "none"
  /\ live = {}
  /\ ub = {}
  /\ calls = <<>>
  /\ fatal = 0

(* ------------------------------------------------- the library interface *)
(* Outcomes of the library functions, as the interface contract gives them: *)
(* status 0 with every output populated, or an error status with every      *)
(* output left as it was.                                                   *)

(* new(backend_kind) -> (status_code, handle_or_null) *)
libtypec_rs_new ==
  {[status |-> 0, handle |-> TheHandle]}
    \cup {[status |-> s, handle |-> NULL] : s \in ErrorStatuses}

(* get_capabilities() -> Capabilities *)
libtypec_rs_get_capabilities(old) ==
  {[status |-> 0, caps |-> [num_connectors |-> n, pd_version |-> v]] :
      n \in 0..MaxConnectors, v \in PdVersions}
    \cup {[status |-> s, caps |-> old] : s \in ErrorStatuses}

(* get_connector_capabilities(index) -> ConnectorCapability *)
libtypec_rs_get_conn_capabilities == {[status |-> s] : s \in {0} \cup ErrorStatuses}

(* get_cable_properties(index) -> CableProperty *)
libtypec_rs_get_cable_properties == {[status |-> s] : s \in {0} \cup ErrorStatuses}

(* A query with the triple-output convention: a fresh buffer id, its element *)
(* count and its allocated size, or the three outputs untouched.             *)
BufferOutcomes(id, maxn, bytes, ptr, n, sz) ==
  {[status |-> 0, ptr |-> id, n |-> k, sz |-> k * bytes] : k \in 0..maxn}
    \cup {[status |-> s, ptr |-> ptr, n |-> n, sz |-> sz] : s \in ErrorStatuses}

libtypec_rs_get_pdos(id, ptr, n, sz) == BufferOutcomes(id, MaxPdos, PdoBytes, ptr, n, sz)

libtypec_rs_get_alternate_modes(id, ptr, n, sz) ==
  BufferOutcomes(id, MaxModes, ModeBytes, ptr, n, sz)

(* get_pd_message fills the caller's PdMessage, which then owns buffer id. *)
libtypec_rs_get_pd_message(id, old) ==
  {[status |-> 0, msg |-> id]} \cup {[status |-> s, msg |-> old] : s \in ErrorStatuses}

(* The buffer a successful query hands to the caller. *)
Buffer(id, kind, n, sz) == [id |-> id, kind |-> kind, n |-> n, sz |-> sz]

(* live after a query with status st produced buffer b *)
Allocated(st, b) == IF st = 0 THEN live \cup {b} ELSE live

(* The id of the buffer the next query produces: the number of that call. *)
FreshId == Len(calls) + 1

(* ub after a call on session handle h: the handle must be a live session *)
UseHandle(h) == IF h = TheHandle /\ session = "live" THEN ub ELSE ub \cup {"bad_handle"}

(* destroy_<result>(ptr, count, size): releases the live buffer with exactly *)
(* these values; anything else is a contract violation.                      *)
Destroy(kind, ptr, n, sz) ==
  LET hit == {b \in live : b.id = ptr} IN
  IF hit # {}
    THEN [live |-> live \ hit,
          ub |-> IF Buffer(ptr, kind, n, sz) \in hit THEN ub
                 ELSE ub \cup {"wrong_triple"}]
    ELSE [live |-> live, ub |-> ub \cup {"not_live"}]

libtypec_rs_destroy_pdos(ptr, n, sz) == Destroy("pdos", ptr, n, sz)

libtypec_rs_destroy_alternate_modes(ptr, n, sz) == Destroy("alt_modes", ptr, n, sz)

libtypec_rs_destroy_pd_message(msg) == Destroy("pd_message", msg, 0, 0)

(* ------------------------------------------------------ c_example_lstypec *)
(* return v; *)
Return(v) == retval' = v /\ pc' = "done"

(* lines 23-26: ret = libtypec_rs_new(backend ? backend : OsBackends_Sysfs, &typec) *)
New ==
  /\ pc = "L26"
  /\ \E o \in libtypec_rs_new :
       /\ ret' = o.status
       /\ typec' = o.handle
       /\ session' = IF o.status = 0 THEN "live" ELSE session
  /\ calls' = Append(calls, Call("new", NULL, Uninit, FALSE, "-", Uninit))
  /\ pc' = "C27"
  /\ UNCHANGED <<capabilities, connector_nr, pdoVars, modeVars, pd_msg, retval, heap,
                 fatal>>

(* CheckNew without the test of typec: the function goes on whatever      *)
(* libtypec_rs_new produced.                                               *)
CheckNewIgnored ==
  /\ pc = "C27"
  /\ pc' = "L34"
  /\ UNCHANGED <<locals, ret, pdoVars, modeVars, pd_msg, retval, session, heap,
                 history>>

(* lines 27-30: if (typec == NULL) return ret *)
CheckNew ==
  /\ pc = "C27"
  /\ \E h \in Read(typec, {NULL, TheHandle}) :
       IF h = NULL THEN Return(ret) ELSE pc' = "L34" /\ UNCHANGED retval
  /\ UNCHANGED <<locals, ret, pdoVars, modeVars, pd_msg, session, heap,
                 history>>

(* line 34: ret = libtypec_rs_get_capabilities(typec, &capabilities) *)
GetCapabilities ==
  /\ pc = "L34"
  /\ \E o \in libtypec_rs_get_capabilities(capabilities) :
       /\ ret' = o.status
       /\ capabilities' = o.caps
       /\ fatal' = NoteFatal(o.status)
  /\ calls' = Append(calls, Call("get_capabilities", typec, Uninit, FALSE, "-", Uninit))
  /\ ub' = UseHandle(typec)
  /\ pc' = "C35"
  /\ UNCHANGED <<typec, connector_nr, pdoVars, modeVars, pd_msg, retval, session, live>>

(* CheckCapabilities without the return: the loop is entered after a failed *)
(* capability query.                                                        *)
CheckCapabilitiesIgnored ==
  /\ pc = "C35"
  /\ pc' = "L40"
  /\ UNCHANGED <<locals, ret, pdoVars, modeVars, pd_msg, retval, session, heap,
                 history>>

(* lines 35-38: if (ret != 0) return ret *)
CheckCapabilities ==
  /\ pc = "C35"
  /\ IF ret # 0 THEN Return(ret) ELSE pc' = "L40" /\ UNCHANGED retval
  /\ UNCHANGED <<locals, ret, pdoVars, modeVars, pd_msg, session, heap,
                 history>>

(* line 40: connector_nr = 0 *)
LoopInit ==
  /\ pc = "L40"
  /\ connector_nr' = 0
  /\ pc' = "T40"
  /\ UNCHANGED <<typec, capabilities, ret, pdoVars, modeVars, pd_msg, retval, session,
                 heap, history>>

(* LoopTest with <= in place of <. *)
LoopTestInclusive ==
  /\ pc = "T40"
  /\ \E nc \in Read(capabilities.num_connectors, 0..MaxConnectors) :
       pc' = IF connector_nr <= nc THEN "L44" ELSE "L179"
  /\ alt_modes' = Uninit /\ nmodes' = Uninit /\ modes_mem_sz' = Uninit
  /\ pd_msg' = Uninit
  /\ UNCHANGED <<locals, ret, pdoVars, retval, session, heap, history>>

(* line 40: connector_nr < capabilities.num_connectors.  The locals declared *)
(* in the loop body (lines 88-90, 112) are indeterminate again at the start  *)
(* of every iteration.                                                       *)
LoopTest ==
  /\ pc = "T40"
  /\ \E nc \in Read(capabilities.num_connectors, 0..MaxConnectors) :
       pc' = IF connector_nr < nc THEN "L44" ELSE "L179"
  /\ alt_modes' = Uninit /\ nmodes' = Uninit /\ modes_mem_sz' = Uninit
  /\ pd_msg' = Uninit
  /\ UNCHANGED <<locals, ret, pdoVars, retval, session, heap, history>>

(* LoopIncr without the increment. *)
LoopIncrStuck ==
  /\ pc = "I41"
  /\ pc' = "T40"
  /\ UNCHANGED <<typec, capabilities, connector_nr, ret, pdoVars, modeVars, pd_msg,
                 retval, session, heap, history>>

(* LoopIncr stepping by two. *)
LoopIncrByTwo ==
  /\ pc = "I41"
  /\ connector_nr' = connector_nr + 2
  /\ pc' = "T40"
  /\ UNCHANGED <<typec, capabilities, ret, pdoVars, modeVars, pd_msg, retval, session,
                 heap, history>>

(* line 41: connector_nr++ *)
LoopIncr ==
  /\ pc = "I41"
  /\ connector_nr' = connector_nr + 1
  /\ pc' = "T40"
  /\ UNCHANGED <<typec, capabilities, ret, pdoVars, modeVars, pd_msg, retval, session,
                 heap, history>>

(* ElseUnlessUnsupported tolerating every error status. *)
ElseContinue(next) == pc' = next /\ UNCHANGED retval

(* The else-branch shared by every tolerant query:                          *)
(* else if (ret != -ENOTSUP) return ret; otherwise fall through to next.    *)
ElseUnlessUnsupported(next) ==
  IF ret # -ENOTSUP THEN Return(ret) ELSE pc' = next /\ UNCHANGED retval

(* line 44: ret = libtypec_rs_get_conn_capabilities(typec, connector_nr, &connector) *)
GetConnCapabilities ==
  /\ pc = "L44"
  /\ \E o \in libtypec_rs_get_conn_capabilities :
       /\ ret' = o.status
       /\ fatal' = NoteFatal(o.status)
  /\ calls' = Append(calls, Call("get_conn_capabilities", typec, connector_nr, FALSE,
                                 "-", Uninit))
  /\ ub' = UseHandle(typec)
  /\ pc' = "C45"
  /\ UNCHANGED <<locals, pdoVars, modeVars, pd_msg, retval, session, live>>

(* lines 45-48: if (ret < 0) return ret *)
CheckConnCapabilities ==
  /\ pc = "C45"
  /\ IF ret < 0 THEN Return(ret) ELSE pc' = "L51" /\ UNCHANGED retval
  /\ UNCHANGED <<locals, ret, pdoVars, modeVars, pd_msg, session, heap,
                 history>>

(* GetPdos passing a fixed PD version, 0x0300, in place of                  *)
(* capabilities.pd_version.                                                 *)
GetPdosFixedVersion(here, chk, partner, type) ==
  /\ pc = here
  /\ \E o \in libtypec_rs_get_pdos(FreshId, out_pdos, out_npdos, out_mem_sz) :
       /\ ret' = o.status
       /\ out_pdos' = o.ptr /\ out_npdos' = o.n /\ out_mem_sz' = o.sz
       /\ live' = Allocated(o.status, Buffer(o.ptr, "pdos", o.n, o.sz))
       /\ fatal' = NoteFatal(o.status)
  /\ calls' = Append(calls, Call("get_pdos", typec, connector_nr, partner, type, 768))
  /\ ub' = UseHandle(typec)
  /\ pc' = chk
  /\ UNCHANGED <<locals, modeVars, pd_msg, retval, session>>

(* ret = libtypec_rs_get_pdos(typec, connector_nr, partner, 0, 0, type,      *)
(*         CurrentSupportedSourceCapabilities, capabilities.pd_version,      *)
(*         &out_pdos, &out_npdos, &out_mem_sz)                               *)
GetPdos(here, chk, partner, type) ==
  /\ pc = here
  /\ \E o \in libtypec_rs_get_pdos(FreshId, out_pdos, out_npdos, out_mem_sz) :
       /\ ret' = o.status
       /\ out_pdos' = o.ptr /\ out_npdos' = o.n /\ out_mem_sz' = o.sz
       /\ live' = Allocated(o.status, Buffer(o.ptr, "pdos", o.n, o.sz))
       /\ fatal' = NoteFatal(o.status)
  /\ \E ver \in Read(capabilities.pd_version, PdVersions) :
       calls' = Append(calls, Call("get_pdos", typec, connector_nr, partner, type, ver))
  /\ ub' = UseHandle(typec)
  /\ pc' = chk
  /\ UNCHANGED <<locals, modeVars, pd_msg, retval, session>>

(* CheckPdos destroying the output variables before it looks at ret. *)
CheckPdosDestroyFirst(here, next) ==
  /\ pc = here
  /\ LET d == libtypec_rs_destroy_pdos(out_pdos, out_npdos, out_mem_sz) IN
       /\ live' = d.live /\ ub' = d.ub
       /\ IF ret = 0 \/ ret = -ENOTSUP THEN pc' = next /\ UNCHANGED retval
          ELSE Return(ret)
  /\ UNCHANGED <<locals, ret, pdoVars, modeVars, pd_msg, session, history>>

(* CheckPdos with assert(out_pdos) in front of the test of ret. *)
CheckPdosAssertFirst(here, next) ==
  /\ pc = here
  /\ IF out_pdos = NULL
       THEN pc' = "aborted" /\ UNCHANGED <<retval, heap>>
       ELSE IF ret = 0
              THEN LET d == libtypec_rs_destroy_pdos(out_pdos, out_npdos, out_mem_sz) IN
                   /\ live' = d.live /\ ub' = d.ub
                   /\ pc' = next
                   /\ UNCHANGED retval
              ELSE ElseUnlessUnsupported(next) /\ UNCHANGED heap
  /\ UNCHANGED <<locals, ret, pdoVars, modeVars, pd_msg, session, history>>

(* if (!ret) { assert(out_pdos); libtypec_rs_destroy_pdos(out_pdos,          *)
(*   out_npdos, out_mem_sz); } else if (ret != -ENOTSUP) return ret          *)
CheckPdos(here, next) ==
  /\ pc = here
  /\ IF ret = 0
       THEN IF out_pdos = NULL
              THEN pc' = "aborted" /\ UNCHANGED <<retval, heap>>
              ELSE LET d == libtypec_rs_destroy_pdos(out_pdos, out_npdos, out_mem_sz) IN
                   /\ live' = d.live /\ ub' = d.ub
                   /\ pc' = next
                   /\ UNCHANGED retval
       ELSE ElseUnlessUnsupported(next) /\ UNCHANGED heap
  /\ UNCHANGED <<locals, ret, pdoVars, modeVars, pd_msg, session, history>>

(* lines 51-54: connector source PDOs *)
GetPdosSource == GetPdos("L51", "C55", FALSE, "Source")

(* lines 55-62 *)
CheckPdosSource == CheckPdos("C55", "L65")

(* lines 65-68: connector sink PDOs *)
GetPdosSink == GetPdos("L65", "C69", FALSE, "Sink")

(* CheckPdosSink going on with the alternate modes, past the cable query. *)
CheckPdosSinkSkipsCable == CheckPdos("C69", "L91")

(* lines 69-76 *)
CheckPdosSink == CheckPdos("C69", "L80")

(* line 80: ret = libtypec_rs_get_cable_properties(typec, connector_nr, &cable_props) *)
GetCableProperties ==
  /\ pc = "L80"
  /\ \E o \in libtypec_rs_get_cable_properties :
       /\ ret' = o.status
       /\ fatal' = NoteFatal(o.status)
  /\ calls' = Append(calls, Call("get_cable_properties", typec, connector_nr, FALSE,
                                 "-", Uninit))
  /\ ub' = UseHandle(typec)
  /\ pc' = "C81"
  /\ UNCHANGED <<locals, pdoVars, modeVars, pd_msg, retval, session, live>>

(* lines 81-85: if (!ret) {} else if (ret != -ENOTSUP) return ret *)
CheckCableProperties ==
  /\ pc = "C81"
  /\ IF ret = 0 THEN pc' = "L91" /\ UNCHANGED retval ELSE ElseUnlessUnsupported("L91")
  /\ UNCHANGED <<locals, ret, pdoVars, modeVars, pd_msg, session, heap,
                 history>>

(* ret = libtypec_rs_get_alternate_modes(typec, recipient, connector_nr,     *)
(*         &alt_modes, &nmodes, &modes_mem_sz)                               *)
GetAlternateModes(here, chk, recipient) ==
  /\ pc = here
  /\ \E o \in libtypec_rs_get_alternate_modes(FreshId, alt_modes, nmodes, modes_mem_sz) :
       /\ ret' = o.status
       /\ alt_modes' = o.ptr /\ nmodes' = o.n /\ modes_mem_sz' = o.sz
       /\ live' = Allocated(o.status, Buffer(o.ptr, "alt_modes", o.n, o.sz))
       /\ fatal' = NoteFatal(o.status)
  /\ calls' = Append(calls, Call("get_alternate_modes", typec, connector_nr, FALSE,
                                 recipient, Uninit))
  /\ ub' = UseHandle(typec)
  /\ pc' = chk
  /\ UNCHANGED <<locals, pdoVars, pd_msg, retval, session>>

(* if (!ret) libtypec_rs_destroy_alternate_modes(alt_modes, nmodes,          *)
(*   modes_mem_sz); else if (ret != -ENOTSUP) return ret                     *)
CheckAlternateModes(here, next) ==
  /\ pc = here
  /\ IF ret = 0
       THEN LET d == libtypec_rs_destroy_alternate_modes(alt_modes, nmodes,
                                                         modes_mem_sz) IN
            /\ live' = d.live /\ ub' = d.ub
            /\ pc' = next
            /\ UNCHANGED retval
       ELSE ElseUnlessUnsupported(next) /\ UNCHANGED heap
  /\ UNCHANGED <<locals, ret, pdoVars, modeVars, pd_msg, session, history>>

(* lines 91-93: alternate modes of the connector *)
GetAltModesConnector == GetAlternateModes("L91", "C94", "Connector")

(* lines 94-99 *)
CheckAltModesConnector == CheckAlternateModes("C94", "L102")

(* lines 102-104: alternate modes of the cable plug *)
GetAltModesSopPrime == GetAlternateModes("L102", "C105", "SopPrime")

(* lines 105-110 *)
CheckAltModesSopPrime == CheckAlternateModes("C105", "L113")

(* ret = libtypec_rs_get_pd_message(typec, connector_nr, recipient,          *)
(*         PdMessageResponseType_DiscoverIdentity, &pd_msg)                  *)
GetPdMessage(here, chk, recipient) ==
  /\ pc = here
  /\ \E o \in libtypec_rs_get_pd_message(FreshId, pd_msg) :
       /\ ret' = o.status
       /\ pd_msg' = o.msg
       /\ live' = Allocated(o.status, Buffer(o.msg, "pd_message", 0, 0))
       /\ fatal' = NoteFatal(o.status)
  /\ calls' = Append(calls, Call("get_pd_message", typec, connector_nr, FALSE,
                                 recipient, Uninit))
  /\ ub' = UseHandle(typec)
  /\ pc' = chk
  /\ UNCHANGED <<locals, pdoVars, modeVars, retval, session>>

(* lines 113-115: DiscoverIdentity of the cable plug *)
GetPdMessageSopPrime == GetPdMessage("L113", "C117", "SopPrime")

(* lines 117-123: if (!ret) libtypec_rs_destroy_pd_message(&pd_msg);         *)
(*   else if (ret != -ENOTSUP) return ret                                    *)
CheckPdMessageSopPrime ==
  /\ pc = "C117"
  /\ IF ret = 0
       THEN LET d == libtypec_rs_destroy_pd_message(pd_msg) IN
            /\ live' = d.live /\ ub' = d.ub
            /\ pc' = "L126"
            /\ UNCHANGED retval
       ELSE ElseUnlessUnsupported("L126") /\ UNCHANGED heap
  /\ UNCHANGED <<locals, ret, pdoVars, modeVars, pd_msg, session, history>>

(* lines 126-128: alternate modes of the partner *)
GetAltModesSop == GetAlternateModes("L126", "C129", "Sop")

(* lines 129-134 *)
CheckAltModesSop == CheckAlternateModes("C129", "L136")

(* lines 136-138: DiscoverIdentity of the partner *)
GetPdMessageSop == GetPdMessage("L136", "C140", "Sop")

(* lines 140-145: if (!ret) {} else if (ret != -ENOTSUP) return ret *)
CheckPdMessageSop ==
  /\ pc = "C140"
  /\ IF ret = 0 THEN pc' = "L147" /\ UNCHANGED retval ELSE ElseUnlessUnsupported("L147")
  /\ UNCHANGED <<locals, ret, pdoVars, modeVars, pd_msg, session, heap,
                 history>>

(* out_pdos = NULL; out_npdos = 0; out_mem_sz = 0 *)
ResetPdos(here, next) ==
  /\ pc = here
  /\ out_pdos' = NULL /\ out_npdos' = 0 /\ out_mem_sz' = 0
  /\ pc' = next
  /\ UNCHANGED <<locals, ret, modeVars, pd_msg, retval, session, heap, history>>

(* lines 147-149 *)
ResetPartnerSource == ResetPdos("L147", "L150")

(* lines 150-153: partner source PDOs *)
GetPdosPartnerSource == GetPdos("L150", "C154", TRUE, "Source")

(* lines 154-160 *)
CheckPdosPartnerSource == CheckPdos("C154", "L162")

(* lines 162-164 *)
ResetPartnerSink == ResetPdos("L162", "L165")

(* lines 165-168: partner sink PDOs *)
GetPdosPartnerSink == GetPdos("L165", "C169", TRUE, "Sink")

(* lines 169-175, then the loop's increment *)
CheckPdosPartnerSink == CheckPdos("C169", "I41")

(* line 179: libtypec_rs_destroy(typec) *)
DestroySession ==
  /\ pc = "L179"
  /\ calls' = Append(calls, Call("destroy", typec, Uninit, FALSE, "-", Uninit))
  /\ ub' = UseHandle(typec)
  /\ session' = IF typec = TheHandle /\ session = "live" THEN "destroyed" ELSE session
  /\ pc' = "L180"
  /\ UNCHANGED <<locals, ret, pdoVars, modeVars, pd_msg, retval, live, fatal>>

(* line 180: return 0 *)
ReturnSuccess ==
  /\ pc = "L180"
  /\ Return(0)
  /\ UNCHANGED <<locals, ret, pdoVars, modeVars, pd_msg, session, heap,
                 history>>

Next ==
  \/ New
  \/ CheckNew
  \/ GetCapabilities
  \/ CheckCapabilities
  \/ LoopInit
  \/ LoopTest
  \/ LoopIncr
  \/ GetConnCapabilities
  \/ CheckConnCapabilities
  \/ GetPdosSource
  \/ CheckPdosSource
  \/ GetPdosSink
  \/ CheckPdosSink
  \/ GetCableProperties
  \/ CheckCableProperties
  \/ GetAltModesConnector
  \/ CheckAltModesConnector
  \/ GetAltModesSopPrime
  \/ CheckAltModesSopPrime
  \/ GetPdMessageSopPrime
  \/ CheckPdMessageSopPrime
  \/ GetAltModesSop
  \/ CheckAltModesSop
  \/ GetPdMessageSop
  \/ CheckPdMessageSop
  \/ ResetPartnerSource
  \/ GetPdosPartnerSource
  \/ CheckPdosPartnerSource
  \/ ResetPartnerSink
  \/ GetPdosPartnerSink
  \/ CheckPdosPartnerSink
  \/ DestroySession
  \/ ReturnSuccess

Spec == Init /\ [][Next]_vars

(* The function is one sequential thread and every library call returns: a *)
(* step that is possible is eventually taken.                              *)
FairSpec == Spec /\ WF_vars(Next)

(* ================================================================ claims *)
PerConnectorOps ==
  {"get_conn_capabilities", "get_pdos", "get_cable_properties", "get_alternate_modes",
   "get_pd_message"}

(* positions after a query has returned and before its status is examined *)
CheckPcs == {"C35", "C45", "C55", "C69", "C81", "C94", "C105", "C117", "C129", "C140",
             "C154", "C169"}

PdosCheckPcs == {"C55", "C69", "C154", "C169"}
ModesCheckPcs == {"C94", "C105", "C129"}

(* the per-connector queries issued for connector i, in order *)
Queries(i) ==
  LET ForI(c) == c.op \in PerConnectorOps /\ c.conn = i IN SelectSeq(calls, ForI)

(* the number of calls of op issued so far *)
Count(op) == Cardinality({k \in DOMAIN calls : calls[k].op = op})

(* the per-connector queries issued so far *)
PerConnectorCalls == {k \in DOMAIN calls : calls[k].op \in PerConnectorOps}

(* the capability query succeeded: its output record is populated *)
CapabilitiesKnown == capabilities.num_connectors # Uninit

(* the queries of one connector, in the order of lines 44-168 *)
SweepOrder ==
  << <<"get_conn_capabilities", FALSE, "-">>,
     <<"get_pdos", FALSE, "Source">>,
     <<"get_pdos", FALSE, "Sink">>,
     <<"get_cable_properties", FALSE, "-">>,
     <<"get_alternate_modes", FALSE, "Connector">>,
     <<"get_alternate_modes", FALSE, "SopPrime">>,
     <<"get_pd_message", FALSE, "SopPrime">>,
     <<"get_alternate_modes", FALSE, "Sop">>,
     <<"get_pd_message", FALSE, "Sop">>,
     <<"get_pdos", TRUE, "Source">>,
     <<"get_pdos", TRUE, "Sink">> >>

(* the place of a query kind in the list of section 4.2 *)
Rank(op) ==
  CASE op = "get_conn_capabilities" -> 1
    [] op = "get_pdos" -> 2
    [] op = "get_cable_properties" -> 3
    [] op = "get_alternate_modes" -> 4
    [] op = "get_pd_message" -> 5

(* C1: -ENOTSUP from a per-connector query never aborts the sweep: the      *)
(* function never returns -ENOTSUP right after a per-connector query, and a *)
(* run in which no query returned a fatal status has issued all eleven      *)
(* queries of every connector when it returns.                              *)
UnsupportedNeverAborts ==
  pc = "done" /\ CapabilitiesKnown /\ fatal = 0 =>
    /\ ~(retval = -ENOTSUP /\ calls[Len(calls)].op \in PerConnectorOps)
    /\ \A i \in 0..(capabilities.num_connectors - 1) : Len(Queries(i)) = Len(SweepOrder)

(* C2: every buffer a successful get_pdos, get_alternate_modes or           *)
(* get_pd_message handed out has been destroyed when a later query of the   *)
(* same kind reuses its variable and when the function returns.             *)
ResultsDestroyedBeforeReuseAndReturn ==
  /\ pc = "done" => live = {}
  /\ pc \in {"L51", "L65", "L150", "L165"} => ~\E b \in live : b.kind = "pdos"
  /\ pc \in {"L91", "L102", "L126"} => ~\E b \in live : b.kind = "alt_modes"
  /\ pc \in {"L113", "L136"} => ~\E b \in live : b.kind = "pd_message"

(* C3: when libtypec_rs_new produced a session handle, libtypec_rs_destroy  *)
(* has been called on it exactly once when the function returns, whichever  *)
(* return is taken.                                                         *)
SessionDestroyedOnEveryReturn ==
  pc = "done" /\ typec = TheHandle =>
    /\ session = "destroyed"
    /\ Count("destroy") = 1

(* C4: a destroy operation is only invoked on the result of the query that  *)
(* just returned 0, with the pointer, count and size that query wrote, and  *)
(* at most once: no destroy call ever names a buffer that is not live or    *)
(* values other than the live buffer's.                                     *)
DestroyOnlyOwnResultOnce ==
  /\ ub \cap {"not_live", "wrong_triple"} = {}
  /\ pc \in PdosCheckPcs /\ ret = 0 =>
       /\ out_pdos = Len(calls)
       /\ Buffer(out_pdos, "pdos", out_npdos, out_mem_sz) \in live
  /\ pc \in ModesCheckPcs /\ ret = 0 =>
       /\ alt_modes = Len(calls)
       /\ Buffer(alt_modes, "alt_modes", nmodes, modes_mem_sz) \in live
  /\ pc = "C117" /\ ret = 0 =>
       /\ pd_msg = Len(calls)
       /\ Buffer(pd_msg, "pd_message", 0, 0) \in live
  /\ \A b \in live : b.kind \in {"pdos", "alt_modes"} => pc \in CheckPcs /\ b.id = Len(calls)

(* C4 witness: the sink PDO query failed with -ENOTSUP while out_pdos still *)
(* holds the source PDO buffer, which was destroyed once and is not         *)
(* destroyed again.                                                         *)
StaleBufferNotDestroyedAgain ==
  /\ pc = "L80"
  /\ ret = -ENOTSUP
  /\ out_pdos # NULL /\ out_npdos = MaxPdos
  /\ ~\E b \in live : b.id = out_pdos
  /\ ub = {}

(* C5: once a query has returned a fatal status, no further query is issued *)
(* and the function returns exactly that status.                            *)
FirstFatalStatusReturned ==
  fatal # 0 =>
    /\ pc \in CheckPcs \cup {"done"}
    /\ ret = fatal
    /\ pc = "done" => retval = fatal

(* C5 witness: a run that returned -EPROTO from a query of connector 1. *)
ReturnedFatalOfSecondConnector ==
  /\ pc = "done"
  /\ fatal = -EPROTO /\ retval = -EPROTO
  /\ connector_nr = 1
  /\ calls[Len(calls)].op = "get_alternate_modes"

(* C6: every per-connector query carries an index below the num_connectors  *)
(* the capability query wrote; with num_connectors = 0 there is none.       *)
ConnectorIndexInRange ==
  \A k \in PerConnectorCalls :
    /\ CapabilitiesKnown
    /\ 0 <= calls[k].conn
    /\ calls[k].conn < capabilities.num_connectors

(* C6 witness: the sweep returned after querying the last connector of two. *)
LastConnectorQueried ==
  /\ pc = "done" /\ retval = 0
  /\ capabilities.num_connectors = 2
  /\ Len(Queries(1)) = Len(SweepOrder)
  /\ Len(Queries(2)) = 0

(* C7 as stated: in every run get_capabilities is called exactly once. *)
CapabilitiesCalledOnceEveryRun ==
  pc = "done" => Count("get_capabilities") = 1

(* C7 amended: get_capabilities is called at most once, directly after      *)
(* libtypec_rs_new; exactly once in every run in which libtypec_rs_new      *)
(* produced a session handle and not at all otherwise; per-connector        *)
(* queries come after it and only when it returned 0.                       *)
CapabilitiesCalledOnceWithSession ==
  /\ \A k \in DOMAIN calls :
       calls[k].op = "get_capabilities" => k = 2 /\ calls[1].op = "new"
  /\ pc = "done" /\ typec = TheHandle => Count("get_capabilities") = 1
  /\ pc = "done" /\ typec = NULL => Count("get_capabilities") = 0
  /\ \A k \in PerConnectorCalls :
       /\ k > 2
       /\ calls[2].op = "get_capabilities"
       /\ CapabilitiesKnown

(* C7 witness: a finished run with one capability query and a swept connector. *)
SweptAfterCapabilities ==
  /\ pc = "done"
  /\ Count("get_capabilities") = 1
  /\ Len(Queries(0)) = Len(SweepOrder)

(* C8 as stated: within a connector no query of a kind earlier in the list  *)
(* of section 4.2 follows a query of a later kind.                          *)
QueriesInSectionOrder ==
  \A i \in 0..(MaxConnectors - 1) :
    \A a, b \in DOMAIN Queries(i) :
      a < b => Rank(Queries(i)[a].op) <= Rank(Queries(i)[b].op)

(* C8 amended: within a connector the queries follow the fixed order of     *)
(* SweepOrder: connector capabilities, local source and sink PDOs, cable    *)
(* properties, alternate modes of Connector and SOP', PD message of SOP',   *)
(* alternate modes of SOP, PD message of SOP, partner source and sink PDOs. *)
QueriesInSweepOrder ==
  \A i \in 0..MaxConnectors :
    /\ Len(Queries(i)) <= Len(SweepOrder)
    /\ \A k \in DOMAIN Queries(i) :
         <<Queries(i)[k].op, Queries(i)[k].partner, Queries(i)[k].kind>> = SweepOrder[k]

(* C8 witness: all eleven queries of connector 0 have been issued. *)
ConnectorFullySwept ==
  /\ Len(Queries(0)) = Len(SweepOrder)
  /\ pc = "I41"

(* C9: assert(out_pdos) never fails: after a get_pdos that returned 0 the   *)
(* handle is non-null, whatever the element count.                          *)
AssertOutPdosHolds ==
  /\ pc # "aborted"
  /\ pc \in PdosCheckPcs /\ ret = 0 => out_pdos # NULL

(* C9 witness: the partner source query returned 0 with no element and the  *)
(* assertion let the function go on.                                        *)
EmptyPdosPassedAssert ==
  /\ pc = "L162"
  /\ ret = 0
  /\ out_npdos = 0 /\ out_pdos # NULL

(* C10: when libtypec_rs_new fails the function issues no query and no      *)
(* destroy and returns the status of libtypec_rs_new; every query and the   *)
(* destroy are issued on the handle libtypec_rs_new wrote on success.       *)
NoCallWithoutSession ==
  /\ "bad_handle" \notin ub
  /\ \A k \in DOMAIN calls : calls[k].op # "new" => calls[k].h = TheHandle /\ typec = TheHandle
  /\ pc = "done" /\ typec = NULL => Len(calls) = 1 /\ ret # 0 /\ retval = ret

(* C10 witness: libtypec_rs_new failed with -EIO and the function returned it. *)
ReturnedStatusOfNew ==
  /\ pc = "done"
  /\ typec = NULL
  /\ Len(calls) = 1
  /\ retval = -EIO

(* the combination of operation, partner flag and type or recipient of a query *)
Combo(c) == <<c.op, c.partner, c.kind>>

(* the combinations queried for connector i so far *)
Combos(i) == {Combo(Queries(i)[k]) : k \in DOMAIN Queries(i)}

(* the connector index of the k-th library call *)
ConnOf(k) == calls[k].conn

(* C11: in a run in which no query returned a fatal status, every connector *)
(* index below num_connectors got exactly eleven queries, one for each of   *)
(* the eleven combinations, none twice and none skipped.                    *)
ElevenQueriesPerConnector ==
  pc = "done" /\ CapabilitiesKnown /\ fatal = 0 =>
    \A i \in 0..(capabilities.num_connectors - 1) :
      /\ Len(Queries(i)) = 11
      /\ Cardinality(Combos(i)) = 11
      /\ Combos(i) = {SweepOrder[k] : k \in DOMAIN SweepOrder}

(* C12: connectors are enumerated in strictly increasing index order from   *)
(* 0: the indices of successive per-connector queries never decrease and    *)
(* rise by one at a time, no index gets more than one sweep, and a query    *)
(* for connector i+1 is only issued after all eleven queries of connector i *)
(* were issued and none of them returned a fatal status.                    *)
ConnectorsInIncreasingOrder ==
  /\ \A k \in PerConnectorCalls :
       /\ (k - 1) \notin PerConnectorCalls => ConnOf(k) = 0
       /\ (k - 1) \in PerConnectorCalls =>
            \/ ConnOf(k) = ConnOf(k - 1)
            \/ /\ ConnOf(k) = ConnOf(k - 1) + 1
               /\ Len(Queries(ConnOf(k - 1))) = Len(SweepOrder)
       /\ fatal # 0 => ConnOf(k) <= ConnOf(Len(calls))
  /\ \A i \in 0..MaxConnectors : Len(Queries(i)) <= Len(SweepOrder)
  /\ pc \in {"I41", "T40", "L179", "L180"} => fatal = 0 /\ ret \in {0, -ENOTSUP}

(* C12 witness: the first query of connector 1 has been issued, after the   *)
(* eleven of connector 0.                                                   *)
SecondConnectorReached ==
  /\ pc = "C45"
  /\ connector_nr = 1
  /\ Len(Queries(0)) = Len(SweepOrder)
  /\ Len(Queries(1)) = 1

(* the get_pdos calls issued so far *)
PdosCalls == {k \in DOMAIN calls : calls[k].op = "get_pdos"}

(* positions at which a libtypec_rs_get_pdos call is about to be made *)
PdosCallPcs == {"L51", "L65", "L150", "L165"}

(* C13: once the capability query has succeeded no later step changes the    *)
(* capabilities record, and every get_pdos call is passed its pd_version.    *)
CapabilitiesFrozen ==
  /\ [][CapabilitiesKnown => capabilities' = capabilities]_vars
  /\ [](\A k \in PdosCalls :
          /\ CapabilitiesKnown
          /\ calls[k].pd_version = capabilities.pd_version)

(* C13 witness: all four PDO queries of connector 0 were issued with PD      *)
(* version 0x0200, the version the capability query reported.                *)
PdosQueriedWithReportedVersion ==
  /\ pc = "I41"
  /\ capabilities.pd_version = 512
  /\ Cardinality(PdosCalls) = 4
  /\ \A k \in PdosCalls : calls[k].pd_version = 512

(* C14: on entry to every get_pdos call the output variables are unset, and  *)
(* a non-null out_pdos after the call is the buffer that call produced.      *)
PdosOutputsUnsetOnEntry ==
  /\ pc \in PdosCallPcs => out_pdos = NULL /\ out_npdos = 0 /\ out_mem_sz = 0
  /\ pc \in PdosCheckPcs /\ out_pdos # NULL => out_pdos = Len(calls)

(* C15: c_example_lstypec eventually returns; connector_nr is only written   *)
(* by the loop's initialisation and by its increment, which adds one; the    *)
(* loop is left at num_connectors or by the return on a failed query.        *)
EventuallyReturns ==
  /\ <>(pc = "done")
  /\ [][connector_nr' # connector_nr =>
          \/ pc = "L40" /\ connector_nr' = 0
          \/ pc = "I41" /\ connector_nr' = connector_nr + 1]_vars
  /\ [](pc = "L179" => connector_nr = capabilities.num_connectors)
  /\ [](pc = "done" /\ CapabilitiesKnown /\ retval # 0 =>
          connector_nr < capabilities.num_connectors)

(* C15 witness: the function returned 0 after the loop counter reached the   *)
(* two connectors reported.                                                  *)
ReturnedAfterLastConnector ==
  /\ pc = "done" /\ retval = 0
  /\ capabilities.num_connectors = 2
  /\ connector_nr = 2

====
